---- MODULE Spec2Model ----
(***************************************************************************)
(* Model of api/index.py: the POST /predict handler of the drawing         *)
(* classification service.  A filename is a sequence of one-character      *)
(* strings; the scratch directory is a function from the paths of the      *)
(* files that exist to their content; the content of a file is the         *)
(* request whose upload it holds and the size of the image.                *)
(***************************************************************************)
EXTENDS Integers, Sequences, FiniteSets, TLC

\* ------------------------------------------------------------------ bounds
NumRequests == 2
MaxNameLen == 5
MaxClasses == 6

Requests == 1..NumRequests

\* ------------------------------------------------------------- characters
Letters == {"a", "b", "c", "d", "e", "f", "g", "h", "i", "j", "k", "l", "m",
            "n", "o", "p", "q", "r", "s", "t", "u", "v", "w", "x", "y", "z"}
Capitals == {"A", "B", "C", "D", "E", "F", "G", "H", "I", "J", "K", "L", "M",
             "N", "O", "P", "Q", "R", "S", "T", "U", "V", "W", "X", "Y", "Z"}
Digits == {"0", "1", "2", "3", "4", "5", "6", "7", "8", "9"}

\* str.lower() on one character
LowerChar(c) ==
    CASE c = "A" -> "a" [] c = "B" -> "b" [] c = "C" -> "c" [] c = "D" -> "d"
      [] c = "E" -> "e" [] c = "F" -> "f" [] c = "G" -> "g" [] c = "H" -> "h"
      [] c = "I" -> "i" [] c = "J" -> "j" [] c = "K" -> "k" [] c = "L" -> "l"
      [] c = "M" -> "m" [] c = "N" -> "n" [] c = "O" -> "o" [] c = "P" -> "p"
      [] c = "Q" -> "q" [] c = "R" -> "r" [] c = "S" -> "s" [] c = "T" -> "t"
      [] c = "U" -> "u" [] c = "V" -> "v" [] c = "W" -> "w" [] c = "X" -> "x"
      [] c = "Y" -> "y" [] c = "Z" -> "z" [] OTHER -> c

\* str.lower()
Lower(s) == [i \in 1..Len(s) |-> LowerChar(s[i])]

\* '.' in filename
HasDot(s) == \E i \in 1..Len(s) : s[i] = "."

\* index of the last '.' of s (0 when there is none)
LastDot(s) ==
    IF HasDot(s)
    THEN CHOOSE i \in 1..Len(s) :
            s[i] = "." /\ \A j \in (i + 1)..Len(s) : s[j] # "."
    ELSE 0

\* filename.rsplit('.', 1)[1]
RSplitExt(s) == SubSeq(s, LastDot(s) + 1, Len(s))

ALLOWED_EXTENSIONS ==
    {<<"p", "n", "g">>, <<"j", "p", "g">>, <<"j", "p", "e", "g">>}

\* the test of line 38 without .lower()
allowed_file_NoLower(filename) ==
    HasDot(filename) /\ RSplitExt(filename) \in ALLOWED_EXTENSIONS

\* allowed_file(filename)
allowed_file(filename) ==
    HasDot(filename) /\ Lower(RSplitExt(filename)) \in ALLOWED_EXTENSIONS

\* -------------------------------------------------------- secure_filename
\* werkzeug.utils.secure_filename on ASCII input:
\*   for sep in os.sep, os.altsep: filename = filename.replace(sep, " ")
\*   "_".join(filename.split()); drop every character outside
\*   [A-Za-z0-9_.-]; strip("._")
SepToSpace(s) == [i \in 1..Len(s) |-> IF s[i] = "/" THEN " " ELSE s[i]]

RECURSIVE JoinSplit(_)
\* "_".join(s.split()): runs of blanks between words become one "_", leading
\* and trailing blanks are dropped
JoinSplit(s) ==
    IF s = <<>> THEN <<>>
    ELSE IF Head(s) = " " THEN JoinSplit(Tail(s))
    ELSE LET rest == Tail(s)
             wordEnds == rest = <<>> \/ Head(rest) = " "
             moreWords == \E i \in 1..Len(rest) : rest[i] # " "
         IN  IF wordEnds /\ moreWords
             THEN <<Head(s), "_">> \o JoinSplit(rest)
             ELSE <<Head(s)>> \o JoinSplit(rest)

SafeChars == Letters \cup Capitals \cup Digits \cup {"_", ".", "-"}

AsciiStrip(s) == SelectSeq(s, LAMBDA c : c \in SafeChars)

RECURSIVE StripLeft(_)
StripLeft(s) ==
    IF s # <<>> /\ Head(s) \in {".", "_"} THEN StripLeft(Tail(s)) ELSE s

RECURSIVE StripRight(_)
StripRight(s) ==
    IF s # <<>> /\ s[Len(s)] \in {".", "_"}
    THEN StripRight(SubSeq(s, 1, Len(s) - 1))
    ELSE s

secure_filename(filename) ==
    StripRight(StripLeft(AsciiStrip(JoinSplit(SepToSpace(filename)))))

\* ------------------------------------------------------ result formatting
\* A probability is held in millionths (950000 is 0.95).

DigitStr(d) ==
    CASE d = 0 -> "0" [] d = 1 -> "1" [] d = 2 -> "2" [] d = 3 -> "3"
      [] d = 4 -> "4" [] d = 5 -> "5" [] d = 6 -> "6" [] d = 7 -> "7"
      [] d = 8 -> "8" [] d = 9 -> "9"

RECURSIVE IntStr(_)
\* str(n) for n >= 0
IntStr(n) == IF n < 10 THEN DigitStr(n) ELSE IntStr(n \div 10) \o DigitStr(n % 10)

\* prob * 100 rounded to two decimals (round half to even), in hundredths
Hundredths(prob) ==
    LET q == prob \div 100
        rem == prob % 100
    IN  IF rem > 50 \/ (rem = 50 /\ q % 2 = 1) THEN q + 1 ELSE q

\* f"{prob * 100:.2f}%"
FormatPercent(prob) ==
    LET h == Hundredths(prob)
    IN  IntStr(h \div 100) \o "." \o DigitStr((h % 100) \div 10)
            \o DigitStr(h % 10) \o "%"

\* the fallback label without its index
LabelName_NoIndex(i) ==
    CASE i = 0 -> "Anger and aggression"
      [] i = 1 -> "Anxiety"
      [] i = 2 -> "Happy"
      [] i = 3 -> "Sad"
      [] OTHER -> "Class"

\* label_names.get(i, f'Class {i}'), i counted from 0
LabelName(i) ==
    CASE i = 0 -> "Anger and aggression"
      [] i = 1 -> "Anxiety"
      [] i = 2 -> "Happy"
      [] i = 3 -> "Sad"
      [] OTHER -> "Class " \o IntStr(i)

\* d[key] = value on a dict held as the sequence of its items in insertion
\* order: an existing key keeps its place and takes the new value
DictSet(d, key, value) ==
    IF \E k \in 1..Len(d) : d[k][1] = key
    THEN [k \in 1..Len(d) |-> IF d[k][1] = key THEN <<key, value>> ELSE d[k]]
    ELSE Append(d, <<key, value>>)

RECURSIVE FormatPredictions(_, _)
\* {label_names.get(i, f'Class {i}'): f"{prob * 100:.2f}%"
\*  for i, prob in enumerate(probs)}, having consumed the first n elements
FormatPredictions(probs, n) ==
    IF n = 0 THEN <<>>
    ELSE DictSet(FormatPredictions(probs, n - 1),
                 LabelName(n - 1), FormatPercent(probs[n]))

\* ------------------------------------------------------------------ state
VARIABLES
    req,        \* req[r]: the request as sent: hasImage, filename
    model,      \* the loaded classifier: upload -> what predict returns for it
    fs,         \* the uploads directory: path of each existing file -> content
    pc,         \* pc[r]: where the handler of request r stands
    filepath,   \* filepath[r]: the scratch path of r, once computed
    img,        \* img[r]: content resize_image holds between open and save
    results,    \* results[r]: what model.predict returned to request r
    exc,        \* exc[r]: str(e) of the exception the handler caught
    resp,       \* resp[r]: the response sent for request r
    log,        \* log[r]: the pipeline steps of r that returned normally
    calls       \* calls[r]: number of model.predict invocations made for r

vars == <<req, model, fs, pc, filepath, img, results, exc, resp, log, calls>>

\* the image a client uploads, before any resize
OriginalSize == <<640, 480>>

\* resize_image's default target_size
target_size == <<224, 224>>

\* content of a file: the request whose upload it is (0: none) and its size
Image(owner, size) == [owner |-> owner, size |-> size]

NoImage == Image(0, <<0, 0>>)

NoResults == [source |-> 0, kind |-> "unset", data |-> <<>>]

NoResponse ==
    [status |-> 0, by |-> "nobody", keys |-> {}, error |-> "",
     predictions |-> <<>>]

\* jsonify({'error': message}), status
ErrorResponse(status, message) ==
    [status |-> status, by |-> "handler", keys |-> {"error"},
     error |-> message, predictions |-> <<>>]

\* jsonify({'predictions': predictions}), 200
PredictionsResponse(predictions) ==
    [status |-> 200, by |-> "handler", keys |-> {"predictions"},
     error |-> "", predictions |-> predictions]

\* what Flask sends when an exception leaves the view function
UnhandledResponse ==
    [status |-> 500, by |-> "framework", keys |-> {}, error |-> "",
     predictions |-> <<>>]

\* every upload kept under one fixed name
ScratchPath_Fixed(name) == <<"u", "p", "l", "o", "a", "d">>

\* lines 62-63: os.path.join(UPLOADS_DIR, secure_filename(file.filename)),
\* as the path below UPLOADS_DIR
ScratchPath(name) == secure_filename(name)

exists(path) == path \in DOMAIN fs

\* the directory after the file at path is written with content c
Written(path, c) == [p \in DOMAIN fs \cup {path} |-> IF p = path THEN c ELSE fs[p]]

\* a cleanup that empties the directory
Removed_All(path) == [p \in {} |-> NoImage]

\* the directory after the file at path is unlinked
Removed(path) == [p \in DOMAIN fs \ {path} |-> fs[p]]

Respond(r, response) ==
    /\ resp' = [resp EXCEPT ![r] = response]
    /\ pc' = [pc EXCEPT ![r] = "done"]

\* an exception raised inside the try block: control moves to the handler
Raise(r, message) ==
    /\ exc' = [exc EXCEPT ![r] = message]
    /\ pc' = [pc EXCEPT ![r] = "except"]

Completed(r, step) == log' = [log EXCEPT ![r] = Append(@, step)]

\* ---------------------------------------------------------------- actions
\* the return of line 54 without its status: Flask answers 200
MissingImageResponse_Status200 ==
    [status |-> 200, by |-> "handler", keys |-> {"error"},
     error |-> "No image file provided", predictions |-> <<>>]

\* line 54: return jsonify({'error': 'No image file provided'}), 400
MissingImageResponse == ErrorResponse(400, "No image file provided")

\* line 60
InvalidFormatResponse ==
    ErrorResponse(400, "Invalid file format. Allowed formats: png, jpg, jpeg")

\* lines 53-63: the two validations; a request that passes has its path
Validate(r) ==
    /\ pc[r] = "start"
    /\ IF ~req[r].hasImage
       THEN Respond(r, MissingImageResponse) /\ UNCHANGED <<filepath, log>>
       ELSE IF ~(req[r].filename # <<>> /\ allowed_file(req[r].filename))
       THEN Respond(r, InvalidFormatResponse) /\ UNCHANGED <<filepath, log>>
       ELSE /\ filepath' = [filepath EXCEPT ![r] = ScratchPath(req[r].filename)]
            /\ pc' = [pc EXCEPT ![r] = "save"]
            /\ Completed(r, "validate")
            /\ UNCHANGED resp
    /\ UNCHANGED <<req, model, fs, img, results, exc, calls>>

\* line 67: file.save(filepath); a failed save may have created the file
Save(r) ==
    /\ pc[r] = "save"
    /\ \/ /\ fs' = Written(filepath[r], Image(r, OriginalSize))
          /\ pc' = [pc EXCEPT ![r] = "open"]
          /\ Completed(r, "save")
          /\ UNCHANGED exc
       \/ /\ fs' \in {fs, Written(filepath[r], Image(r, OriginalSize))}
          /\ Raise(r, "save failed")
          /\ UNCHANGED log
    /\ UNCHANGED <<req, model, filepath, img, results, resp, calls>>

\* lines 71-72 followed at once by line 78, the call of resize_image left out
Open_SkipResize(r) ==
    /\ pc[r] = "open"
    /\ \/ /\ exists(filepath[r])
          /\ pc' = [pc EXCEPT ![r] = "predict"]
          /\ Completed(r, "open")
          /\ UNCHANGED exc
       \/ /\ exists(filepath[r])
          /\ Raise(r, "cannot identify image file")
          /\ UNCHANGED log
       \/ /\ ~exists(filepath[r])
          /\ Raise(r, "No such file or directory")
          /\ UNCHANGED log
    /\ UNCHANGED <<req, model, filepath, fs, img, results, resp, calls>>

\* lines 71-72: with Image.open(filepath) as img: log its size
Open(r) ==
    /\ pc[r] = "open"
    /\ \/ /\ exists(filepath[r])
          /\ pc' = [pc EXCEPT ![r] = "resize_open"]
          /\ Completed(r, "open")
          /\ UNCHANGED exc
       \/ /\ exists(filepath[r])
          /\ Raise(r, "cannot identify image file")
          /\ UNCHANGED log
       \/ /\ ~exists(filepath[r])
          /\ Raise(r, "No such file or directory")
          /\ UNCHANGED log
    /\ UNCHANGED <<req, model, filepath, fs, img, results, resp, calls>>

\* lines 43-44 of resize_image: open the file and resize the image in memory
ResizeOpen(r) ==
    /\ pc[r] = "resize_open"
    /\ \/ /\ exists(filepath[r])
          /\ img' = [img EXCEPT ![r] = fs[filepath[r]]]
          /\ pc' = [pc EXCEPT ![r] = "resize_save"]
          /\ UNCHANGED exc
       \/ /\ exists(filepath[r])
          /\ Raise(r, "Error resizing image: cannot identify image file")
          /\ UNCHANGED img
       \/ /\ ~exists(filepath[r])
          /\ Raise(r, "Error resizing image: No such file or directory")
          /\ UNCHANGED img
    /\ UNCHANGED <<req, model, filepath, fs, results, resp, log, calls>>

\* line 45 of resize_image: img.save(filepath) writes the resized image in
\* place, creating the file when it is gone; a failed save may have written
ResizeSave(r) ==
    /\ pc[r] = "resize_save"
    /\ \/ /\ fs' = Written(filepath[r], Image(img[r].owner, target_size))
          /\ pc' = [pc EXCEPT ![r] = "predict"]
          /\ Completed(r, "resize")
          /\ UNCHANGED exc
       \/ /\ fs' \in {fs, Written(filepath[r], Image(img[r].owner, target_size))}
          /\ Raise(r, "Error resizing image: save failed")
          /\ UNCHANGED log
    /\ img' = [img EXCEPT ![r] = NoImage]
    /\ UNCHANGED <<req, model, filepath, results, resp, calls>>

\* line 78: results = model.predict(source=filepath, show=False)
Predict(r) ==
    /\ pc[r] = "predict"
    /\ calls' = [calls EXCEPT ![r] = @ + 1]
    /\ \/ /\ exists(filepath[r])
          /\ results' = [results EXCEPT ![r] =
                [source |-> fs[filepath[r]].owner,
                 kind |-> model[fs[filepath[r]].owner].kind,
                 data |-> model[fs[filepath[r]].owner].data]]
          /\ pc' = [pc EXCEPT ![r] = "remove"]
          /\ Completed(r, "predict")
          /\ UNCHANGED exc
       \/ /\ exists(filepath[r])
          /\ Raise(r, "inference failed")
          /\ UNCHANGED <<results, log>>
       \/ /\ ~exists(filepath[r])
          /\ Raise(r, "No such file or directory")
          /\ UNCHANGED <<results, log>>
    /\ UNCHANGED <<req, model, filepath, fs, img, resp>>

\* line 81: os.remove(filepath)
Remove(r) ==
    /\ pc[r] = "remove"
    /\ \/ /\ exists(filepath[r])
          /\ fs' = Removed(filepath[r])
          /\ pc' = [pc EXCEPT ![r] = "extract"]
          /\ Completed(r, "remove")
          /\ UNCHANGED exc
       \/ /\ exists(filepath[r])
          /\ Raise(r, "Permission denied")
          /\ UNCHANGED <<fs, log>>
       \/ /\ ~exists(filepath[r])
          /\ Raise(r, "No such file or directory")
          /\ UNCHANGED <<fs, log>>
    /\ UNCHANGED <<req, model, filepath, img, results, resp, calls>>

\* lines 84-90: examine the results and answer
Extract(r) ==
    /\ pc[r] = "extract"
    /\ \/ /\ results[r].kind = "probs"
          /\ Respond(r, PredictionsResponse(
                FormatPredictions(results[r].data, Len(results[r].data))))
          /\ Completed(r, "extract")
          /\ UNCHANGED exc
       \/ /\ results[r].kind = "probs"
          /\ Raise(r, "can't convert tensor to numpy")
          /\ UNCHANGED <<resp, log>>
       \/ /\ results[r].kind = "empty_list"
          /\ Raise(r, "list index out of range")
          /\ UNCHANGED <<resp, log>>
       \/ /\ results[r].kind \in {"not_list", "no_probs_attr", "probs_none"}
          /\ Respond(r, ErrorResponse(500, "Unable to process the image"))
          /\ UNCHANGED <<exc, log>>
    /\ results' = [results EXCEPT ![r] = NoResults]
    /\ UNCHANGED <<req, model, filepath, fs, img, calls>>

\* lines 94-95, and 97 when the file is gone: if os.path.exists(filepath)
Except(r) ==
    /\ pc[r] = "except"
    /\ IF exists(filepath[r])
       THEN /\ pc' = [pc EXCEPT ![r] = "except_remove"]
            /\ UNCHANGED resp
       ELSE Respond(r, ErrorResponse(500, "Error during prediction: " \o exc[r]))
    /\ UNCHANGED <<req, model, filepath, fs, img, results, exc, log, calls>>

\* lines 96-97: os.remove(filepath) in the handler, then the 500 answer; an
\* exception raised here leaves the view function
ExceptRemove(r) ==
    /\ pc[r] = "except_remove"
    /\ \/ /\ exists(filepath[r])
          /\ fs' = Removed(filepath[r])
          /\ Respond(r, ErrorResponse(500, "Error during prediction: " \o exc[r]))
       \/ /\ UNCHANGED fs
          /\ Respond(r, UnhandledResponse)
    /\ UNCHANGED <<req, model, filepath, img, results, exc, log, calls>>

Next ==
    \E r \in Requests :
        \/ Validate(r)
        \/ Save(r)
        \/ Open(r)
        \/ ResizeOpen(r)
        \/ ResizeSave(r)
        \/ Predict(r)
        \/ Remove(r)
        \/ Extract(r)
        \/ Except(r)
        \/ ExceptRemove(r)

\* ----------------------------------------------------------------- inputs
NoUpload == [hasImage |-> FALSE, filename |-> <<>>]

Upload(name) == [hasImage |-> TRUE, filename |-> name]

\* a.png and b.jpg
SampleNames == {<<"a", ".", "p", "n", "g">>, <<"b", ".", "j", "p", "g">>}

\* a classifier that tells the uploads apart: upload c scores c% on class 0
SampleModel ==
    [c \in Requests |->
        [kind |-> "probs",
         data |-> <<10000 * c, 20000, 950000 - 10000 * c, 30000>>]]

Alphabet == {".", "p", "n", "g", "j", "e", "P", "/"}

AllNames == UNION {[1..n -> Alphabet] : n \in 0..MaxNameLen}

ProbValues == {10000, 20000, 950000, 123456}

AllVectors == UNION {[1..n -> ProbValues] : n \in 0..MaxClasses}

AllResults ==
    {[kind |-> k, data |-> <<>>] :
        k \in {"not_list", "empty_list", "no_probs_attr", "probs_none"}}
    \cup {[kind |-> "probs", data |-> v] : v \in AllVectors}

\* happy.jpg
HappyJpg == <<"h", "a", "p", "p", "y", ".", "j", "p", "g">>

\* ------------------------------------------------------- specifications
\* the state once the given requests have arrived and the others never do
Arrived(arriving) ==
    /\ fs = <<>>
    /\ filepath = [r \in Requests |-> <<>>]
    /\ pc = [r \in Requests |-> IF r \in arriving THEN "start" ELSE "idle"]
    /\ img = [r \in Requests |-> NoImage]
    /\ results = [r \in Requests |-> NoResults]
    /\ exc = [r \in Requests |-> ""]
    /\ resp = [r \in Requests |-> NoResponse]
    /\ log = [r \in Requests |-> <<>>]
    /\ calls = [r \in Requests |-> 0]

\* every request is in flight at once, sent with or without an image
Init ==
    /\ req \in [Requests -> {NoUpload} \cup {Upload(f) : f \in SampleNames}]
    /\ model = SampleModel
    /\ Arrived(Requests)

Spec == Init /\ [][Next]_vars

\* one request, its filename any string over Alphabet
InitNames ==
    /\ \E f \in AllNames :
            req = [r \in Requests |-> IF r = 1 THEN Upload(f) ELSE NoUpload]
    /\ model = SampleModel
    /\ Arrived({1})

SpecNames == InitNames /\ [][Next]_vars

\* one request, the classifier returning any of AllResults
InitFormat ==
    /\ req = [r \in Requests |-> IF r = 1 THEN Upload(HappyJpg) ELSE NoUpload]
    /\ \E out \in AllResults : model = [c \in Requests |-> out]
    /\ Arrived({1})

SpecFormat == InitFormat /\ [][Next]_vars

\* ------------------------------------------------------------------ claims
\* the request r takes a step of its handler
Steps(r) == pc'[r] # pc[r]

\* r passed both validations (lines 53-60)
Validated(r) == log[r] # <<>>

\* C2, in every state: a request sent without a file part 'image', once
\* answered, got status 400 from the handler with a JSON body holding a
\* non-empty 'error' string and nothing else, ran no pipeline step and never
\* had model.predict invoked.
C2_Answer ==
    \A r \in Requests :
        (~req[r].hasImage /\ pc[r] = "done") =>
            /\ resp[r].status = 400
            /\ resp[r].by = "handler"
            /\ resp[r].keys = {"error"}
            /\ resp[r].error # ""
            /\ log[r] = <<>>
            /\ calls[r] = 0

\* C2, in every step: the handler of a request without a file part 'image'
\* leaves the scratch directory and the model as they were.
C2_Frame ==
    \A r \in Requests :
        (~req[r].hasImage /\ Steps(r)) => (fs' = fs /\ model' = model)

\* C2: a request with no file part named 'image' is answered 400 with an
\* 'error' string, creates no file in the scratch directory and never invokes
\* the model; the scratch directory and the model are unchanged by it.
C2_MissingImage == [](C2_Answer) /\ [][C2_Frame]_vars

\* C2 witness: a request without image was answered while another request's
\* upload sat in the scratch directory
C2_Witness ==
    \E r \in Requests :
        ~req[r].hasImage /\ pc[r] = "done" /\ DOMAIN fs # {}

\* the claim's wording of the test: the text after the last '.', compared
\* without regard to case, is png, jpg or jpeg
C3_Acceptable(name) ==
    \E i \in 1..Len(name) :
        /\ name[i] = "."
        /\ \A j \in (i + 1)..Len(name) : name[j] # "."
        /\ LET n == Len(name) - i
               at(k) == name[i + k]
           IN  \/ n = 3 /\ at(1) \in {"p", "P"} /\ at(2) \in {"n", "N"}
                        /\ at(3) \in {"g", "G"}
               \/ n = 3 /\ at(1) \in {"j", "J"} /\ at(2) \in {"p", "P"}
                        /\ at(3) \in {"g", "G"}
               \/ n = 4 /\ at(1) \in {"j", "J"} /\ at(2) \in {"p", "P"}
                        /\ at(3) \in {"e", "E"} /\ at(4) \in {"g", "G"}

\* C3: an uploaded filename passes validation if and only if it contains a
\* '.' and the text after its last '.' is png, jpg or jpeg in any case; any
\* other filename is answered 400 'Invalid file format. Allowed formats: png,
\* jpg, jpeg', with nothing persisted and the model not invoked.
C3_Extension ==
    \A r \in Requests :
        (req[r].hasImage /\ pc[r] \notin {"idle", "start"}) =>
            IF C3_Acceptable(req[r].filename)
            THEN Validated(r)
            ELSE /\ pc[r] = "done"
                 /\ resp[r].status = 400
                 /\ resp[r].keys = {"error"}
                 /\ resp[r].error =
                        "Invalid file format. Allowed formats: png, jpg, jpeg"
                 /\ log[r] = <<>>
                 /\ calls[r] = 0
                 /\ (\A q \in Requests \ {r} : pc[q] = "idle") => DOMAIN fs = {}

\* C3 witness: the upload named "png.e" (an allowed extension, but not after
\* the last '.') has been refused
C3_Witness ==
    /\ req[1].filename = <<"p", "n", "g", ".", "e">>
    /\ pc[1] = "done"
    /\ resp[1].status = 400

\* the filename of r names an image, in the words of the claims
Accepted(r) == req[r].hasImage /\ C3_Acceptable(req[r].filename)

\* the sanitized filename of r
Sanitized(r) == secure_filename(req[r].filename)

\* r and q are two accepted requests with the same sanitized filename
Collide(r, q) == r # q /\ Accepted(r) /\ Accepted(q) /\ Sanitized(r) = Sanitized(q)

\* the key the claim gives index i (counted from 0)
C6_Key(i) ==
    CASE i = 0 -> "Anger and aggression" [] i = 1 -> "Anxiety"
      [] i = 2 -> "Happy" [] i = 3 -> "Sad"
      [] i = 4 -> "Class 4" [] i = 5 -> "Class 5" [] i = 6 -> "Class 6"
      [] i = 7 -> "Class 7" [] i = 8 -> "Class 8" [] i = 9 -> "Class 9"

\* the two-decimal percentage of each probability the classifier emits here
C6_Percent(prob) ==
    CASE prob = 10000 -> "1.00%" [] prob = 20000 -> "2.00%"
      [] prob = 950000 -> "95.00%" [] prob = 123456 -> "12.35%"

\* C6: a 200 answer to a probability vector of length n has exactly n
\* predictions; the one of index i is keyed by the label of i ('Class i' from
\* index 4 on) and holds element i as a percentage with two decimals; no index
\* is dropped and no two share a key; [0.01, 0.02, 0.95, 0.02] gives 1.00%,
\* 2.00%, 95.00%, 2.00%.
C6_Predictions ==
    \A r \in Requests :
        resp[r].status = 200 =>
            LET probs == model[r].data
                items == resp[r].predictions
            IN  /\ resp[r].keys = {"predictions"}
                /\ Len(items) = Len(probs)
                /\ \A i \in 1..Len(probs) :
                        \E k \in 1..Len(items) :
                            items[k] = <<C6_Key(i - 1), C6_Percent(probs[i])>>
                /\ \A j, k \in 1..Len(items) :
                        j # k => items[j][1] # items[k][1]
                /\ probs = <<10000, 20000, 950000, 20000>> =>
                        items = << <<"Anger and aggression", "1.00%">>,
                                   <<"Anxiety", "2.00%">>,
                                   <<"Happy", "95.00%">>,
                                   <<"Sad", "2.00%">> >>

\* C6 witness: a 200 answer to a vector of more than five elements, which
\* needs two synthetic labels
C6_Witness ==
    /\ resp[1].status = 200
    /\ Len(model[1].data) > 5
    /\ Len(resp[1].predictions) > 5

Pipeline ==
    <<"validate", "save", "open", "resize", "predict", "remove", "extract">>

IsPrefix(s, t) == Len(s) <= Len(t) /\ s = SubSeq(t, 1, Len(s))

\* C8: the steps of one request happen in the order validate, save, open and
\* resize, predict, remove, extract: the model is invoked only after the
\* resize completed, the file is removed after predict returned and before
\* the results are examined, and a 200 answer follows all seven steps.
C8_Steps ==
    \A r \in Requests :
        /\ IsPrefix(log[r], Pipeline)
        /\ calls[r] > 0 => IsPrefix(SubSeq(Pipeline, 1, 4), log[r])
        /\ calls[r] <= 1
        /\ pc[r] = "predict" => log[r] = SubSeq(Pipeline, 1, 4)
        /\ pc[r] = "remove" => log[r] = SubSeq(Pipeline, 1, 5)
        /\ pc[r] = "extract" => log[r] = SubSeq(Pipeline, 1, 6)
        /\ results[r] # NoResults => IsPrefix(SubSeq(Pipeline, 1, 5), log[r])
        /\ resp[r].status = 200 => log[r] = Pipeline

\* the resize step of r leaves a 224x224 image at the path r saved to
C8_InPlace ==
    \A r \in Requests :
        (pc[r] = "resize_save" /\ pc'[r] = "predict") =>
            /\ filepath[r] \in DOMAIN fs'
            /\ fs'[filepath[r]].size = <<224, 224>>

\* C8: the steps of one request happen in the order validate, save, open and
\* resize in place to 224x224, predict, remove, extract, respond.
C8_Order == [](C8_Steps) /\ [][C8_InPlace]_vars

\* C8 witness: a request answered 200
C8_Witness ==
    \E r \in Requests : resp[r].status = 200 /\ log[r] = Pipeline

MissingFile ==
    {"No such file or directory",
     "Error resizing image: No such file or directory"}

\* C9: nothing keeps two requests with the same sanitized filename apart:
\* what one writes lies at the scratch path of the other, and one request
\* holding another's upload (in resize_image or as the model's input) or
\* finding its file gone is what a request of the same sanitized filename did
\* to it.  That such races do occur is the witness.
C9_Race ==
    \A r \in Requests :
        /\ \A q \in Requests : \A p \in DOMAIN fs :
                (fs[p].owner = r /\ Validated(q) /\ Collide(r, q)) =>
                    p = filepath[q]
        /\ img[r].owner \notin {0, r} => Collide(r, img[r].owner)
        /\ results[r].source \notin {0, r} => Collide(r, results[r].source)
        /\ exc[r] \in MissingFile =>
                \E q \in Requests : Collide(r, q) /\ Validated(q)

\* C9 witness: of two requests with one sanitized filename, r had the model
\* read the upload of q, which overwrote its file, and q was answered 500
\* because the cleanup of r removed the file q was still working on
C9_Witness ==
    \E r, q \in Requests :
        /\ Collide(r, q)
        /\ pc[r] = "extract"
        /\ results[r].source = q
        /\ pc[q] = "done"
        /\ resp[q].status = 500
        /\ resp[q].error = "Error during prediction: No such file or directory"

\* the accepted requests have pairwise distinct sanitized filenames
Distinct == \A r, q \in Requests : ~Collide(r, q)

C10_Alone ==
    \A r \in Requests :
        /\ \A p \in DOMAIN fs : fs[p].owner = r => p = filepath[r]
        /\ (Validated(r) /\ filepath[r] \in DOMAIN fs) =>
                fs[filepath[r]].owner = r
        /\ img[r].owner \in {0, r}
        /\ results[r].source \in {0, r}
        /\ exc[r] \notin MissingFile
        /\ resp[r].status = 200 =>
                resp[r].predictions[1] =
                    <<"Anger and aggression", IntStr(r) \o ".00%">>
        /\ (Validated(r) /\ resp[r].by = "handler") =>
                filepath[r] \notin DOMAIN fs
        /\ resp[r].by = "framework" => filepath[r] \in DOMAIN fs

C10_Frame ==
    \A r \in Requests :
        Steps(r) =>
            /\ model' = model
            /\ \A p \in (DOMAIN fs \cup DOMAIN fs') \ {filepath'[r]} :
                    /\ p \in DOMAIN fs
                    /\ p \in DOMAIN fs'
                    /\ fs'[p] = fs[p]

\* C10: when the sanitized filenames of the concurrent requests are pairwise
\* distinct, every step of a request creates, overwrites or deletes only the
\* file at that request's path and leaves the model alone, so that each
\* request works on its own upload only, is answered from it, and leaves its
\* path as it would alone: empty after an answer of the handler.
C10_Isolation ==
    [](C10_Alone \/ ~Distinct) /\ [][C10_Frame \/ ~Distinct]_vars

\* C10 witness: two requests with distinct paths in flight together, both
\* files in the directory, one about to be classified and one to be removed
C10_Witness ==
    /\ Distinct
    /\ \E r, q \in Requests :
            /\ r # q
            /\ pc[r] = "predict"
            /\ pc[q] = "remove"
            /\ {filepath[r], filepath[q]} \subseteq DOMAIN fs
            /\ filepath[r] # filepath[q]

\* C1: when the answer to a request that passed validation is sent, whatever
\* its status, no file lies at the request's scratch path.
C1_Cleanup ==
    [][\A r \in Requests :
            (Validated(r) /\ resp[r] = NoResponse /\ resp'[r] # NoResponse) =>
                filepath[r] \notin DOMAIN fs']_vars

\* C4: a request in which save, open, resize or predict raised is answered
\* 500 by the handler with 'Error during prediction: ' and the exception's
\* text, its scratch file is gone, no later step has run, and the model was
\* not invoked when an earlier step failed.
C4_Failure ==
    \A r \in Requests :
        (pc[r] = "done" /\ exc[r] # "" /\ Len(log[r]) \in 1..4) =>
            /\ resp[r].status = 500
            /\ resp[r].by = "handler"
            /\ resp[r].keys = {"error"}
            /\ resp[r].error = "Error during prediction: " \o exc[r]
            /\ filepath[r] \notin DOMAIN fs
            /\ Len(log[r]) < 4 => calls[r] = 0

\* C5: when predict returned no usable output (not a list, an empty list, a
\* first result without 'probs' or with probs None), the answer is 500 with
\* the error 'Unable to process the image' and no predictions.
C5_Unavailable ==
    \A r \in Requests :
        (pc[r] = "done" /\ Len(log[r]) >= 6 /\ model[r].kind # "probs") =>
            /\ resp[r].status = 500
            /\ resp[r].error = "Unable to process the image"
            /\ resp[r].predictions = <<>>
            /\ filepath[r] \notin DOMAIN fs

\* C7: every request ends with one answer of the handler, 200 with
\* 'predictions' or 400 or 500 with an 'error' string, whatever failed; no
\* exception leaves the handler and predict runs at most once.
C7_Answered ==
    \A r \in Requests :
        /\ calls[r] <= 1
        /\ pc[r] = "done" =>
            /\ resp[r].by = "handler"
            /\ \/ resp[r].status = 200 /\ resp[r].keys = {"predictions"}
               \/ /\ resp[r].status \in {400, 500}
                  /\ resp[r].keys = {"error"}
                  /\ resp[r].error # ""

====
